---- MODULE Spec2Model ----
(***************************************************************************)
(* Model of the clip pipeline of py-youtube-tool: the segment builder of   *)
(* CommentParser, the per-item orchestration of main.py, the upload lock   *)
(* of UploadScheduler, the sqlite ledger of DatabaseManager and the remote *)
(* catalog seen through YouTubeAPI.                                        *)
(*                                                                         *)
(* Strings are sequences of one-character strings, so that lower(),        *)
(* strip() and the substring test `in` are computed, not assumed.          *)
(***************************************************************************)
EXTENDS Integers, Sequences, FiniteSets, TLC

\* ------------------------------------------------------------------ bounds
\* longest reference list drawn for the segment builder
MaxRefs == 4
\* largest offset (seconds) drawn for a reference
MaxOffset == 2
\* longest reference list drawn when the keywords come from the environment
MaxEnvRefs == 2
\* drain passes the main loop starts
MaxPasses == 2
\* DatabaseManager calls made on one database file
MaxCalls == 4
\* longest source playlist the drain loops page through
MaxPlaylist == 5
\* largest `retries` argument drawn for retry_with_backoff
MaxRetries == 3
\* minutes the wall clock advances while the schedule loop is watched
MaxElapsed == 6
\* the sleeps of the wait after an error in the main loop: `for _ in range(180)`
\* in main(), scaled down
BackoffTicks == 4
\* sleeps counted after the shutdown request
TickCap == 2
\* batch_size of the drain loops: 50 in main(), scaled down to the playlists drawn
BatchSize == 2

\* ------------------------------------------------------- program constants
\* comment_parser.py: the pad added after the last reference
PadSeconds == 60
\* upload_scheduler.py: the minutes of a day, 24 * 60
DayMinutes == 1440
\* upload_scheduler.py: "within the 5-minute window"
Tolerance == 5
\* main.py: `for _ in range(3)`, the wait between two schedule checks
WaitTicks == 3

\* ----------------------------------------------------------------- strings
UpperOf == [a |-> "A", x |-> "X", t |-> "T"]

IsUpper(c) == \E l \in DOMAIN UpperOf : UpperOf[l] = c

LowerChar(c) == IF IsUpper(c) THEN CHOOSE l \in DOMAIN UpperOf : UpperOf[l] = c ELSE c

\* str.lower()
Lower(s) == [k \in 1..Len(s) |-> LowerChar(s[k])]

IsSpace(c) == c = " "

RECURSIVE LStrip(_)
LStrip(s) == IF s # <<>> /\ IsSpace(Head(s)) THEN LStrip(Tail(s)) ELSE s

RECURSIVE RStrip(_)
RStrip(s) == IF s # <<>> /\ IsSpace(s[Len(s)]) THEN RStrip(SubSeq(s, 1, Len(s) - 1)) ELSE s

\* str.strip()
Strip(s) == RStrip(LStrip(s))

\* the Python test `p in s` on strings
Contains(s, p) == \E k \in 0..(Len(s) - Len(p)) : SubSeq(s, k + 1, k + Len(p)) = p

\* any(k in s for k in ks)
AnyIn(ks, s) == \E j \in 1..Len(ks) : Contains(s, ks[j])

\* ------------------------------------------------ CommentParser (segments)
\* a reference is <<offset_seconds, description>>, a segment is
\* <<start_time, end_time, description>>; indices are 1-based here and
\* 0-based in the source, index differences are the same.

\* exclude_keywords = [k.strip().lower() for k in (exclude_keywords or [])]
CleanExclude(ex) == [j \in 1..Len(ex) |-> Lower(Strip(ex[j]))]

\* mutant of IsMatched: the exclusion test is dropped
IsMatched_NoExclude(desc, keywords, exclude_keywords) == AnyIn(keywords, Lower(desc))

\* mutant of IsMatched: the two tests joined by `or` instead of nested
IsMatched_Either(desc, keywords, exclude_keywords) ==
    AnyIn(keywords, Lower(desc)) \/ ~AnyIn(CleanExclude(exclude_keywords), Lower(desc))

\* the test of one reference in the first loop
IsMatched(desc, keywords, exclude_keywords) ==
    LET desc_lower == Lower(desc)
        ex == CleanExclude(exclude_keywords)
    IN  /\ AnyIn(keywords, desc_lower)
        /\ (ex = <<>> \/ ~AnyIn(ex, desc_lower))

RECURSIVE MatchedFrom(_, _, _, _)
MatchedFrom(timestamps, keywords, exclude_keywords, i) ==
    IF i > Len(timestamps) THEN <<>>
    ELSE IF IsMatched(timestamps[i][2], keywords, exclude_keywords)
         THEN <<i>> \o MatchedFrom(timestamps, keywords, exclude_keywords, i + 1)
         ELSE MatchedFrom(timestamps, keywords, exclude_keywords, i + 1)

\* matched_indices after the first loop
MatchedIndices(timestamps, keywords, exclude_keywords) ==
    MatchedFrom(timestamps, keywords, exclude_keywords, 1)

\* mutant of RunEnd: closes the run at its own last reference
RunEnd_Current(timestamps, idx) == timestamps[idx][1]

\* mutant of RunEnd: pads the boundary of an inner run as the final one is padded
RunEnd_Padded(timestamps, idx) == timestamps[idx + 1][1] + PadSeconds

\* the end boundary closing a run whose last selected index is idx and that is
\* followed by another selected reference: timestamps[current_idx + 1][0]
RunEnd(timestamps, idx) == timestamps[idx + 1][1]

\* mutant of IsGap: an off-by-one in the adjacency test
IsGap_OffByOne(current_idx, next_idx) == next_idx - current_idx >= 1

\* "If next matched timestamp is not consecutive": next_idx - current_idx > 1
IsGap(current_idx, next_idx) == next_idx - current_idx > 1

\* the second loop: for i in range(len(matched_indices) - 1)
RECURSIVE SegmentLoop(_, _, _, _, _, _)
SegmentLoop(timestamps, m, i, segments, current_start_time, current_desc) ==
    IF i > Len(m) - 1
    THEN [segments |-> segments, current_start_time |-> current_start_time,
          current_desc |-> current_desc]
    ELSE IF IsGap(m[i], m[i + 1])
         THEN SegmentLoop(timestamps, m, i + 1,
                          Append(segments, <<current_start_time,
                                             RunEnd(timestamps, m[i]),
                                             current_desc>>),
                          timestamps[m[i + 1]][1], timestamps[m[i + 1]][2])
         ELSE SegmentLoop(timestamps, m, i + 1, segments,
                          current_start_time, current_desc)

\* mutant of LastEnd: pads the final segment whatever follows it
LastEnd_AlwaysPadded(timestamps, last_idx) == timestamps[last_idx][1] + PadSeconds

\* "Handle last segment": the end of the segment that closes the list
LastEnd(timestamps, last_idx) ==
    IF last_idx < Len(timestamps)
    THEN timestamps[last_idx + 1][1]
    ELSE timestamps[last_idx][1] + PadSeconds

\* mutant of LastDesc: the last segment labelled like the others
LastDesc_First(timestamps, last_idx, current_desc) == current_desc

\* the description of the segment appended after the loop: timestamps[last_idx][1]
LastDesc(timestamps, last_idx, current_desc) == timestamps[last_idx][2]

find_continuous_segments(timestamps, keywords, exclude_keywords) ==
    LET m == MatchedIndices(timestamps, keywords, exclude_keywords)
    IN  IF m = <<>> THEN <<>>
        ELSE LET r == SegmentLoop(timestamps, m, 1, <<>>,
                                  timestamps[m[1]][1], timestamps[m[1]][2])
                 last_idx == m[Len(m)]
             IN  Append(r.segments, <<r.current_start_time,
                                      LastEnd(timestamps, last_idx),
                                      LastDesc(timestamps, last_idx, r.current_desc)>>)

\* ---------------------------------------------------------------- state
VARIABLES
    \* CommentParser.find_continuous_segments, also the orchestrator's locals
    timestamps,        \* the reference list handed to the segment builder
    keywords,          \* include keywords
    exclude_keywords,  \* exclude keywords
    segments,          \* the list find_continuous_segments returned
    parser_pc,         \* "input" before a direct call of the builder, "built" after
    \* the source playlist, in playlist order
    playlist,
    \* what survives a restart
    ledger,            \* processed_videos table: video_id -> row or NoRow
    catalog,           \* the videos of the destination channel
    published,         \* video_id -> successful YouTubeAPI.upload_video calls
    raw_files,         \* ids whose raw download is on disk
    clip_files,        \* clip paths on disk
    compilation_files, \* compilation paths on disk
    \* UploadScheduler
    upload_lock,       \* TRUE while threading.Lock is held
    current_upload,    \* self.current_upload
    \* the main thread: main() and process_and_upload_video
    pc,
    passes,            \* drain passes started so far
    queue,             \* video ids of the batch not yet processed
    video_id,
    existing_video,    \* check_existing_files found a raw download
    called_download,   \* the download collaborator fetched the video in this run
    video_path,
    clip_paths,
    compilation_path,
    response,          \* what YouTubeAPI.upload_video returned to the main thread
    upload_ok,         \* what UploadScheduler.upload_video returned
    calls,             \* the collaborator calls the item has made so far, in order
    \* a thread running UploadScheduler.schedule_uploads
    sched_pc,
    sched_job,         \* pending_uploads[0]
    sched_response,
    \* the environment main() reads
    env_keywords,      \* os.getenv("KEYWORDS", "").split(",")
    env_exclude,       \* os.getenv("KEYWORDS_EXCLUDE", "").split(",")
    \* the drain loops of main() and process_batch_of_videos
    shutdown,          \* GracefulShutdown.shutdown
    paused,            \* PauseHandler.paused
    drain_mode,        \* "immediate" (args.immediate) or "scheduled"
    drain_pc,
    start_index,
    video_ids,         \* the videos of the batch not yet iterated
    listings,          \* the start_index of every catalog listing requested
    observed_shutdown, \* the main thread has read shutdown as True
    observed_paused,   \* what the main thread last read from paused
    started,           \* the videos handed to process_and_upload_video
    sleeps_since_shutdown, \* time.sleep calls of the main thread begun with shutdown set
    \* the schedule loop of main() and the wall clock
    wall_clock,        \* datetime.now(): the minute of the day
    elapsed,           \* minutes passed since the program started
    upload_times,      \* UploadScheduler.upload_times: <<hour, minute>> pairs
    wait_i,            \* iterations done of the running `for _ in range(...)` wait
    last_trigger,      \* the minute at which the last drain pass was triggered, or -1
    \* a call through retry_with_backoff
    retry_pc,
    retries,
    backoff_in_seconds,
    x,                 \* the retry counter of wrapper()
    invocations,       \* what each call of func did, in order
    waits              \* the time.sleep arguments, in tenths of a second

\* what no step of the pipeline changes
envVars == <<env_keywords, env_exclude>>

drainVars == <<shutdown, paused, drain_mode, drain_pc, start_index, video_ids, listings,
               observed_shutdown, observed_paused, started>>

clockVars == <<wall_clock, elapsed, upload_times, wait_i, last_trigger>>

retryVars == <<retry_pc, retries, backoff_in_seconds, x, invocations, waits>>

configVars == <<keywords, exclude_keywords, parser_pc, playlist, envVars, drainVars,
                sleeps_since_shutdown, clockVars, retryVars>>

parserVars == <<timestamps, segments, configVars>>

durableVars == <<ledger, catalog, published, raw_files, clip_files, compilation_files>>

lockVars == <<upload_lock, current_upload>>

itemLocals == <<video_id, existing_video, called_download, video_path, clip_paths,
                compilation_path, response, upload_ok>>

itemVars == <<itemLocals, calls>>

mainVars == <<pc, passes, queue, itemVars>>

schedVars == <<sched_pc, sched_job, sched_response>>

vars == <<parserVars, durableVars, lockVars, mainVars, schedVars>>

\* --------------------------------------------------- the source catalog
\* the video ids a source playlist can list
VideoIds == {"v1", "v2", "v3"}

Range(seq) == { seq[k] : k \in 1..Len(seq) }

\* snippet.title of a source video
ItemTitle(id) == <<"T", id>>

\* the reference lists extract_timestamps can return for the allow-listed
\* comments of a video: none, references no keyword selects, two runs
CommentChoices ==
    { <<>>,
      << <<0, <<"x">>>> >>,
      << <<0, <<"a">>>>, <<1, <<"x">>>>, <<2, <<"a", " ", "t">>>> >> }

\* KEYWORDS and KEYWORDS_EXCLUDE as main() reads them
EnvKeywords == << <<"a">> >>

EnvExcludeKeywords == <<>>

None == "None"

\* None where a path is expected, and SQL NULL in the compilation_path column
NoPath == <<>>

\* None where a title is expected
NoTitle == <<>>

\* sched_job before the first poll
NoJob == [video_id |-> None, title |-> NoTitle, compilation_path |-> NoPath]

\* ------------------------------------------------------------ FileManager
\* the characters str.isalnum accepts in the model's alphabet
IsAlnum(c) == c \in (DOMAIN UpperOf) \/ IsUpper(c)

\* description[:30]
DescCap == 30

\* f"{minutes:02d}m{remaining_seconds:02d}s": the two numbers it prints
format_time(seconds) == <<seconds \div 60, seconds % 60>>

\* "".join(c if c.isalnum() else "_" for c in description[:30])
safe_desc(description) ==
    LET d == SubSeq(description, 1, IF Len(description) < DescCap THEN Len(description) ELSE DescCap)
    IN  [k \in 1..Len(d) |-> IF IsAlnum(d[k]) THEN d[k] ELSE "_"]

\* mutant of get_clip_path: a name already on disk gets a suffix
get_clip_path_Unique(id, start_time, description, end_time) ==
    LET base == [video_id |-> id,
                 time_str |-> <<format_time(start_time), "_to_", format_time(end_time)>>,
                 safe_desc |-> safe_desc(description)]
    IN  IF base \in clip_files
        THEN [base EXCEPT !.safe_desc = @ \o <<"_">>]
        ELSE base

\* the file name get_clip_path builds inside downloads/<video_id>/parts
get_clip_path(id, start_time, description, end_time) ==
    [video_id |-> id,
     time_str |-> <<format_time(start_time), "_to_", format_time(end_time)>>,
     safe_desc |-> safe_desc(description)]

\* check_existing_files: the raw download of the id, if one is on disk
check_existing_files(id) == id \in raw_files

\* get_compilation_path: compilation_<now>.mp4; the pass number is the clock
get_compilation_path(id) == <<id, passes>>

\* ------------------------------------------------------- DatabaseManager
\* the table is a function from the video_id keys it holds to their rows
HasRow(db, id) == id \in DOMAIN db

\* upload_status is NULL until mark_as_uploaded
Null == "NULL"

\* uploaded_date is NULL until mark_as_uploaded, then <<datetime.now()>>
NoDate == <<>>

\* mutant of add_processed_video: INSERT OR REPLACE instead of INSERT OR IGNORE
add_processed_video_Replace(db, id, title, path, now) ==
    [k \in DOMAIN db \cup {id} |->
        IF k = id
        THEN [title |-> title, compilation_path |-> path, processed_date |-> now,
              uploaded_date |-> NoDate, upload_status |-> Null]
        ELSE db[k]]

\* INSERT OR IGNORE INTO processed_videos
\* (video_id, title, compilation_path, processed_date)
add_processed_video(db, id, title, path, now) ==
    IF HasRow(db, id) THEN db
    ELSE [k \in DOMAIN db \cup {id} |->
            IF k = id
            THEN [title |-> title, compilation_path |-> path, processed_date |-> now,
                  uploaded_date |-> NoDate, upload_status |-> Null]
            ELSE db[k]]

\* UPDATE processed_videos SET upload_status = 'uploaded', uploaded_date = ?
\* WHERE video_id = ?
mark_as_uploaded(db, id, now) ==
    IF ~HasRow(db, id) THEN db
    ELSE [db EXCEPT ![id].upload_status = "uploaded", ![id].uploaded_date = <<now>>]

\* get_video_status: None without a row, else the status, NULL read as pending
get_video_status(db, id) ==
    IF ~HasRow(db, id) THEN None
    ELSE IF db[id].upload_status = Null THEN "pending" ELSE db[id].upload_status

IsPending(db, id) ==
    /\ HasRow(db, id)
    /\ db[id].upload_status = Null
    /\ db[id].compilation_path # NoPath

\* get_pending_uploads, in table order (the order of the playlist here)
RECURSIVE PendingFrom(_, _, _)
PendingFrom(db, order, k) ==
    IF k > Len(order) THEN <<>>
    ELSE IF IsPending(db, order[k])
         THEN <<order[k]>> \o PendingFrom(db, order, k + 1)
         ELSE PendingFrom(db, order, k + 1)

get_pending_uploads(db) == PendingFrom(db, playlist, 1)

\* ------------------------------------------------------------- YouTubeAPI
\* the text check_if_uploaded searches for:
\* f"Original video: https://youtu.be/{video_id}"
Fingerprint(id) == <<"O", "riginal video: ", "https://youtu.be/", id>>

\* the description UploadScheduler gives a compilation:
\* f"Compilation from original video: {title}"
CompilationDescription(title) == <<"Compilation from ", "o", "riginal video: ">> \o title

\* the description reup.py gives a re-upload
ReupDescription(id) ==
    Fingerprint(id) \o <<"\n\n", "This is a re-upload of the original video.">>

\* check_if_uploaded with a search that answers: some returned video's
\* description contains the fingerprint
FoundInCatalog(cat, id) ==
    \E e \in cat : Contains(e.description, Fingerprint(id))

\* mutant of check_if_uploaded: an error of the search read as a hit
check_if_uploaded_ErrorIsHit(cat, id, search) ==
    IF search = "raises" THEN TRUE ELSE FoundInCatalog(cat, id)

\* check_if_uploaded; a search that raises answers False
check_if_uploaded(cat, id, search) ==
    IF search = "raises" THEN FALSE ELSE FoundInCatalog(cat, id)

\* videos().insert accepted the upload: the new video of the channel
Published(id, title) ==
    [source |-> id, description |-> CompilationDescription(title)]

\* ------------------------------------------------------------------- Init
InitDurable ==
    /\ ledger = [id \in {} |-> Null]
    /\ catalog = {}
    /\ published = [id \in VideoIds |-> 0]
    /\ raw_files = {}
    /\ clip_files = {}
    /\ compilation_files = {}

\* KEYWORDS and KEYWORDS_EXCLUDE not read in this run
EnvUnset ==
    /\ env_keywords = <<>>
    /\ env_exclude = <<>>

\* no drain loop entered
DrainIdle ==
    /\ shutdown = FALSE
    /\ paused = FALSE
    /\ drain_mode = "none"
    /\ drain_pc = "idle"
    /\ start_index = 0
    /\ video_ids = <<>>
    /\ listings = <<>>
    /\ observed_shutdown = FALSE
    /\ observed_paused = FALSE
    /\ started = <<>>

\* the schedule loop not entered, the clock not read
ClockIdle ==
    /\ sleeps_since_shutdown = 0
    /\ wall_clock = 0
    /\ elapsed = 0
    /\ upload_times = <<>>
    /\ wait_i = 0
    /\ last_trigger = -1

\* no call through retry_with_backoff
RetryIdle ==
    /\ retry_pc = "idle"
    /\ retries = 0
    /\ backoff_in_seconds = 0
    /\ x = 0
    /\ invocations = <<>>
    /\ waits = <<>>

InitThreads ==
    /\ upload_lock = FALSE
    /\ current_upload = NoTitle
    /\ pc = "idle"
    /\ passes = 0
    /\ queue = <<>>
    /\ video_id = None
    /\ existing_video = FALSE
    /\ called_download = FALSE
    /\ video_path = None
    /\ clip_paths = <<>>
    /\ compilation_path = NoPath
    /\ response = None
    /\ upload_ok = None
    /\ calls = <<>>
    /\ sched_pc = "poll"
    /\ sched_job = NoJob
    /\ sched_response = None

Init ==
    /\ timestamps = <<>>
    /\ keywords = EnvKeywords
    /\ exclude_keywords = EnvExcludeKeywords
    /\ segments = <<>>
    /\ parser_pc = "orchestrator"
    /\ playlist = <<"v1">>
    /\ InitDurable
    /\ InitThreads
    /\ ClockIdle
    /\ RetryIdle
    /\ EnvUnset
    /\ DrainIdle

\* one entry of calls: the collaborator called, the paths handed to it, and
\* whether it answered with a result (a path, an id, True)
Call(op, arg, ok) == [op |-> op, arg |-> arg, ok |-> ok]

\* the locals of process_and_upload_video before its first statement
FreshItem(id) ==
    /\ video_id' = id
    /\ existing_video' = FALSE
    /\ called_download' = FALSE
    /\ video_path' = None
    /\ clip_paths' = <<>>
    /\ compilation_path' = NoPath
    /\ response' = None
    /\ upload_ok' = None
    /\ calls' = <<>>
    /\ timestamps' = <<>>
    /\ segments' = <<>>

\* threading.Lock.acquire(blocking=False): succeeds exactly when the lock is free
TryAcquire_Always(locked) == TRUE

TryAcquire(locked) == ~locked

\* mutant of release: the finally clause leaves the lock held
release_Skipped(locked) == locked

\* finally: self.upload_lock.release()
release(locked) == FALSE

\* -------------------------------------------------- main(): the drain pass
\* a pass starts (immediate mode, or is_schedule_time answered True) and the
\* playlist is listed
StartPass ==
    /\ pc = "idle"
    /\ passes < MaxPasses
    /\ passes' = passes + 1
    /\ queue' = playlist
    /\ pc' = "batch"
    /\ UNCHANGED <<parserVars, durableVars, lockVars, itemVars, schedVars>>

\* process_batch_of_videos: the next video of the batch, or the end of the pass
NextItem ==
    /\ pc \in {"batch", "item_done"}
    /\ IF queue = <<>>
       THEN /\ pc' = "idle"
            /\ FreshItem(None)
            /\ UNCHANGED queue
       ELSE /\ pc' = "check_remote"
            /\ FreshItem(Head(queue))
            /\ queue' = Tail(queue)
    /\ UNCHANGED <<configVars, durableVars, lockVars, passes, schedVars>>

\* -------------------------------------------- process_and_upload_video
\* mutant of ItemExcept: the exception leaves process_batch_of_videos and is
\* caught by the schedule loop of main()
ItemExcept_Propagates == "idle"

\* main.py 167-168: `except Exception` logs and the call returns to the batch loop
ItemExcept == "item_done"

\* what the history keeps of the search: whether it raised
SearchError(search) == IF search = "raises" THEN << <<"raised">> >> ELSE <<>>

\* main.py 92-96: the remote check; a hit ends the item
CheckRemote ==
    /\ pc = "check_remote"
    /\ \E search \in {"answers", "raises"} :
         LET found == check_if_uploaded(catalog, video_id, search) IN
         /\ pc' = IF found THEN "item_done" ELSE "fetch"
         /\ calls' = Append(calls, Call("check_if_uploaded", SearchError(search), found))
    /\ UNCHANGED <<parserVars, durableVars, lockVars, passes, queue, itemLocals, schedVars>>

\* main.py 98-120: video info, the filesystem probe, the comments, the references
FetchReferences ==
    /\ pc = "fetch"
    /\ existing_video' = check_existing_files(video_id)
    /\ \/ \* get_video_comments raises: caught at main.py 167
          /\ pc' = ItemExcept
          /\ calls' = calls \o <<Call("get_video_info", <<>>, TRUE),
                                  Call("check_existing_files", <<>>, existing_video'),
                                  Call("get_video_comments", <<>>, FALSE)>>
          /\ UNCHANGED timestamps
       \/ \E refs \in CommentChoices :
            /\ timestamps' = refs
            /\ calls' = calls \o <<Call("get_video_info", <<>>, TRUE),
                                    Call("check_existing_files", <<>>, existing_video'),
                                    Call("get_video_comments", <<>>, TRUE)>>
            /\ pc' = IF refs = <<>> THEN "item_done" ELSE "acquire"
    /\ UNCHANGED <<configVars, segments, durableVars, lockVars, passes, queue, video_id,
                   called_download, video_path, clip_paths, compilation_path,
                   response, upload_ok, schedVars>>

\* main.py 122-133: the raw video, then the segments
AcquireAndBuild ==
    /\ pc = "acquire"
    /\ IF existing_video
       THEN /\ video_path' = video_id
            /\ UNCHANGED <<called_download, raw_files>>
       ELSE \* downloader.download_video: an existing file, a download, or None
            /\ called_download' = TRUE
            /\ \E fetched \in BOOLEAN :
                 IF fetched \/ video_id \in raw_files
                 THEN /\ raw_files' = raw_files \cup {video_id}
                      /\ video_path' = video_id
                 ELSE /\ video_path' = None
                      /\ UNCHANGED raw_files
    /\ IF video_path' = None
       THEN /\ pc' = "item_done"
            /\ calls' = Append(calls, Call("download_video", <<>>, FALSE))
            /\ UNCHANGED segments
       ELSE /\ segments' = find_continuous_segments(timestamps, keywords, exclude_keywords)
            /\ calls' = calls
                          \o (IF existing_video THEN <<>>
                              ELSE <<Call("download_video", <<>>, TRUE)>>)
                          \o <<Call("find_continuous_segments", <<>>, segments' # <<>>)>>
            /\ pc' = IF segments' = <<>> THEN "item_done" ELSE "process"
    /\ UNCHANGED <<configVars, timestamps, ledger, catalog, published, clip_files,
                   compilation_files, lockVars, passes, queue, video_id, existing_video,
                   clip_paths, compilation_path, response, upload_ok, schedVars>>

\* the clip paths of the segments whose cut succeeded, in segment order
RECURSIVE CutPaths(_, _, _, _)
CutPaths(id, segs, cut, k) ==
    IF k > Len(segs) THEN <<>>
    ELSE IF k \in cut
         THEN <<get_clip_path(id, segs[k][1], segs[k][3], segs[k][2])>>
                  \o CutPaths(id, segs, cut, k + 1)
         ELSE CutPaths(id, segs, cut, k + 1)

\* one clip_video call per segment, in segment order
RECURSIVE ClipCalls(_, _, _, _)
ClipCalls(id, segs, cut, k) ==
    IF k > Len(segs) THEN <<>>
    ELSE <<Call("clip_video",
                <<get_clip_path(id, segs[k][1], segs[k][3], segs[k][2])>>,
                k \in cut)>>
             \o ClipCalls(id, segs, cut, k + 1)

\* mutant of MergeInput: the clips in the order the directory lists them
MergeInput_DirectoryOrder(paths) == [k \in 1..Len(paths) |-> paths[Len(paths) + 1 - k]]

\* the list process_segments hands to merge_clips: clip_paths as appended
MergeInput(paths) == paths

\* main.py 136, processor.py 164-195: cut every segment, merge what was cut
ProcessSegments ==
    /\ pc = "process"
    /\ \E cut \in SUBSET (1..Len(segments)), merge \in {"ok", "fails", "raises"} :
         LET paths == CutPaths(video_id, segments, cut, 1) IN
         /\ clip_files' = clip_files \cup Range(paths)
         /\ (paths = <<>>) => (merge = "fails")
         /\ calls' = calls \o ClipCalls(video_id, segments, cut, 1)
                           \o (IF paths = <<>> THEN <<>>
                               ELSE <<Call("merge_clips", MergeInput(paths), merge = "ok")>>)
         /\ IF merge = "raises"
            THEN \* merge_clips raises past process_segments: caught at main.py 167
                 /\ pc' = ItemExcept
                 /\ UNCHANGED <<clip_paths, compilation_path, compilation_files>>
            ELSE /\ clip_paths' = paths
                 /\ IF paths # <<>> /\ merge = "ok"
                    THEN /\ compilation_path' = get_compilation_path(video_id)
                         /\ compilation_files' =
                                compilation_files \cup {get_compilation_path(video_id)}
                         /\ pc' = "upload"
                    ELSE /\ compilation_path' = NoPath
                         /\ UNCHANGED compilation_files
                         /\ pc' = "cleanup"
    /\ UNCHANGED <<parserVars, ledger, catalog, published, raw_files, lockVars, passes,
                   queue, video_id, existing_video, called_download, video_path,
                   response, upload_ok, schedVars>>

\* ---------------------------------------- UploadScheduler.upload_video
\* main.py 140-147 and upload_scheduler.py 146-153: the title, the lock, the
\* compilation file
UploadAcquire ==
    /\ pc = "upload"
    /\ LET title == ItemTitle(video_id) IN
         IF TryAcquire(upload_lock)
         THEN IF compilation_path \in compilation_files
              THEN /\ upload_lock' = TRUE
                   /\ current_upload' = title
                   /\ pc' = "remote_upload"
                   /\ UNCHANGED upload_ok
              ELSE \* "Compilation file not found": return False, finally releases
                   /\ upload_lock' = release(TRUE)
                   /\ current_upload' = NoTitle
                   /\ upload_ok' = "False"
                   /\ pc' = "cleanup"
         ELSE \* "Previous upload still in progress": return False
              /\ upload_ok' = "False"
              /\ pc' = "cleanup"
              /\ UNCHANGED lockVars
    /\ UNCHANGED <<parserVars, durableVars, passes, queue, video_id, existing_video,
                   called_download, video_path, clip_paths, compilation_path,
                   response, calls, schedVars>>

\* upload_scheduler.py 155-159, api.py 29-79: the remote call returns the new
\* id, returns None (a chunk failed), or raises (not authenticated)
RemoteUpload ==
    /\ pc = "remote_upload"
    /\ \/ /\ response' = "id"
          /\ catalog' = catalog \cup {Published(video_id, current_upload)}
          /\ published' = [published EXCEPT ![video_id] = @ + 1]
          /\ pc' = "mark"
          /\ UNCHANGED <<lockVars, upload_ok>>
       \/ /\ response' = None
          /\ pc' = "mark"
          /\ UNCHANGED <<catalog, published, lockVars, upload_ok>>
       \/ \* except at upload_scheduler.py 171: return False, finally releases
          /\ response' = "raised"
          /\ upload_ok' = "False"
          /\ upload_lock' = release(TRUE)
          /\ current_upload' = NoTitle
          /\ pc' = "cleanup"
          /\ UNCHANGED <<catalog, published>>
    /\ calls' = Append(calls, Call("upload_video", <<>>, response' = "id"))
    /\ UNCHANGED <<parserVars, ledger, raw_files, clip_files, compilation_files, passes,
                   queue, video_id, existing_video, called_download, video_path,
                   clip_paths, compilation_path, schedVars>>

\* upload_scheduler.py 160-176: the ledger, the compilation file, return True
MarkUploaded ==
    /\ pc = "mark"
    /\ ledger' = mark_as_uploaded(ledger, video_id, passes)
    /\ compilation_files' = compilation_files \ {compilation_path}
    /\ upload_ok' = "True"
    /\ upload_lock' = release(TRUE)
    /\ current_upload' = NoTitle
    /\ pc' = "cleanup"
    /\ calls' = Append(calls, Call("mark_as_uploaded", <<>>, HasRow(ledger, video_id)))
    /\ UNCHANGED <<parserVars, catalog, published, raw_files, clip_files, passes, queue,
                   video_id, existing_video, called_download, video_path, clip_paths,
                   compilation_path, response, schedVars>>

\* main.py 155-161: the clips of this run are removed once a compilation was built
ClipsAfterCleanup(files, paths, compilation) ==
    IF compilation # NoPath THEN files \ Range(paths) ELSE files

\* main.py 163-165 with FileManager.cleanup_video
RawAfterCleanup_Always(files, existing, path) == files \ {path}

RawAfterCleanup(files, existing, path) ==
    IF ~existing THEN files \ {path} ELSE files

Cleanup ==
    /\ pc = "cleanup"
    /\ clip_files' = ClipsAfterCleanup(clip_files, clip_paths, compilation_path)
    /\ raw_files' = RawAfterCleanup(raw_files, existing_video, video_path)
    /\ pc' = "item_done"
    /\ UNCHANGED <<parserVars, ledger, catalog, published, compilation_files, lockVars,
                   passes, queue, itemVars, schedVars>>

\* the process is killed and started again: memory is lost, the disk, the
\* ledger and the remote catalog stay
Crash ==
    /\ pc # "idle"
    /\ pc' = "idle"
    /\ queue' = <<>>
    /\ FreshItem(None)
    /\ upload_lock' = FALSE
    /\ current_upload' = NoTitle
    /\ sched_pc' = "poll"
    /\ sched_job' = NoJob
    /\ sched_response' = None
    /\ UNCHANGED <<configVars, durableVars, passes>>

\* --------------------------------------- UploadScheduler.schedule_uploads
\* upload_scheduler.py 92-103: the pending rows, the wait for the upload time
SchedPoll ==
    /\ sched_pc = "poll"
    /\ get_pending_uploads(ledger) # <<>>
    /\ LET id == get_pending_uploads(ledger)[1] IN
         sched_job' = [video_id |-> id, title |-> ledger[id].title,
                       compilation_path |-> ledger[id].compilation_path]
    /\ sched_pc' = "acquire"
    /\ UNCHANGED <<parserVars, durableVars, lockVars, mainVars, sched_response>>

\* upload_scheduler.py 106-115 and 136-139
SchedAcquire ==
    /\ sched_pc = "acquire"
    /\ IF TryAcquire(upload_lock)
       THEN IF sched_job.compilation_path \in compilation_files
            THEN /\ upload_lock' = TRUE
                 /\ current_upload' = sched_job.title
                 /\ sched_pc' = "remote_upload"
            ELSE \* continue: finally releases the lock
                 /\ upload_lock' = release(TRUE)
                 /\ current_upload' = NoTitle
                 /\ sched_pc' = "poll"
       ELSE \* sleeps and polls again
            /\ sched_pc' = "poll"
            /\ UNCHANGED lockVars
    /\ UNCHANGED <<parserVars, durableVars, mainVars, sched_job, sched_response>>

\* upload_scheduler.py 117-121
SchedRemoteUpload ==
    /\ sched_pc = "remote_upload"
    /\ \/ /\ sched_response' = "id"
          /\ catalog' = catalog \cup
                 {Published(sched_job.video_id, sched_job.title)}
          /\ published' = [published EXCEPT ![sched_job.video_id] = @ + 1]
          /\ sched_pc' = "mark"
          /\ UNCHANGED lockVars
       \/ /\ sched_response' = None
          /\ sched_pc' = "mark"
          /\ UNCHANGED <<catalog, published, lockVars>>
       \/ /\ sched_response' = "raised"
          /\ upload_lock' = release(TRUE)
          /\ current_upload' = NoTitle
          /\ sched_pc' = "poll"
          /\ UNCHANGED <<catalog, published>>
    /\ UNCHANGED <<parserVars, ledger, raw_files, clip_files, compilation_files,
                   mainVars, sched_job>>

\* upload_scheduler.py 122-135
SchedMark ==
    /\ sched_pc = "mark"
    /\ ledger' = mark_as_uploaded(ledger, sched_job.video_id, passes)
    /\ compilation_files' = compilation_files \ {sched_job.compilation_path}
    /\ upload_lock' = release(TRUE)
    /\ current_upload' = NoTitle
    /\ sched_pc' = "poll"
    /\ UNCHANGED <<parserVars, catalog, published, raw_files, clip_files, mainVars,
                   sched_job, sched_response>>

\* ------------------------------------------------------- other programs
\* a caller of DatabaseManager.add_processed_video records a compilation it
\* built (path <<id, 0>>, on disk or not), one left on disk, or no path
RecordStarted ==
    \E id \in Range(playlist) :
      \E path \in {NoPath, <<id, 0>>} \cup { c \in compilation_files : c[1] = id },
         onDisk \in BOOLEAN :
        /\ ~HasRow(ledger, id)
        /\ ledger' = add_processed_video(ledger, id, ItemTitle(id), path, passes)
        /\ compilation_files' =
               IF path = <<id, 0>> /\ onDisk
               THEN compilation_files \cup {path} ELSE compilation_files
        /\ UNCHANGED <<parserVars, catalog, published, raw_files, clip_files, lockVars,
                       mainVars, schedVars>>

\* reup.py process_video, run while no item is in progress: download, upload
\* with the fingerprint description, remove the download
Reup ==
    /\ pc = "idle"
    /\ \E id \in Range(playlist), uploaded \in BOOLEAN :
        /\ catalog' = IF uploaded
                      THEN catalog \cup {[source |-> id,
                                          description |-> ReupDescription(id)]}
                      ELSE catalog
        /\ raw_files' = raw_files \ {id}
    /\ UNCHANGED <<parserVars, ledger, published, clip_files, compilation_files,
                   lockVars, mainVars, schedVars>>

Next ==
    \/ StartPass
    \/ NextItem
    \/ CheckRemote
    \/ FetchReferences
    \/ AcquireAndBuild
    \/ ProcessSegments
    \/ UploadAcquire
    \/ RemoteUpload
    \/ MarkUploaded
    \/ Cleanup
    \/ Crash
    \/ SchedPoll
    \/ SchedAcquire
    \/ SchedRemoteUpload
    \/ SchedMark
    \/ RecordStarted
    \/ Reup

Spec == Init /\ [][Next]_vars

\* ------------------------------------------- inputs of the segment builder
Labels == { <<"a">>, <<"x">>, <<"a", " ", "t">>, <<"A", "x">> }

KeywordLists == { <<>>, << <<"a">> >>, << <<"x">> >>, << <<"t">>, <<"x">> >> }

ExcludeLists == { <<>>, << <<"t">> >>, << <<" ", "X">> >> }

Refs == (0..MaxOffset) \X Labels

\* reference lists sorted ascending by offset, as extract_timestamps returns them
SortedByOffset(ts) == \A i \in 1..(Len(ts) - 1) : ts[i][1] <= ts[i + 1][1]

RefLists == UNION { { ts \in [1..n -> Refs] : SortedByOffset(ts) } : n \in 0..MaxRefs }

InitParser ==
    /\ timestamps \in RefLists
    /\ keywords \in KeywordLists
    /\ exclude_keywords \in ExcludeLists
    /\ segments = <<>>
    /\ parser_pc = "input"
    /\ playlist = <<>>
    /\ InitDurable
    /\ InitThreads
    /\ ClockIdle
    /\ RetryIdle
    /\ EnvUnset
    /\ DrainIdle

\* one call of CommentParser.find_continuous_segments
FindSegments ==
    /\ parser_pc = "input"
    /\ segments' = find_continuous_segments(timestamps, keywords, exclude_keywords)
    /\ parser_pc' = "built"
    /\ UNCHANGED <<timestamps, keywords, exclude_keywords, playlist, envVars, drainVars,
                   sleeps_since_shutdown, clockVars, retryVars>>
    /\ UNCHANGED <<durableVars, lockVars, mainVars, schedVars>>

NextParser == FindSegments

SpecParser == InitParser /\ [][NextParser]_vars

\* ------------------------------------- the keywords read from the environment
RECURSIVE NonBlank(_)
\* [k for k in raw if k.strip()]
NonBlank(raw) ==
    IF raw = <<>> THEN <<>>
    ELSE IF Strip(Head(raw)) # <<>> THEN <<Head(raw)>> \o NonBlank(Tail(raw))
    ELSE NonBlank(Tail(raw))

\* mutant of get_keywords_from_env: the entries keep their letter case
get_keywords_from_env_KeepCase(raw) ==
    LET kept == NonBlank(raw) IN [j \in 1..Len(kept) |-> Strip(kept[j])]

\* keywords = [k.strip().lower() for k in keywords if k.strip()]
get_keywords_from_env(raw) ==
    LET kept == NonBlank(raw) IN [j \in 1..Len(kept) |-> Lower(Strip(kept[j]))]

\* mutant of ExcludeKeywordsFromEnv: the blank entries are kept
ExcludeKeywordsFromEnv_KeepBlank(raw) == [j \in 1..Len(raw) |-> Strip(raw[j])]

\* main(): exclude_keywords = [k.strip() for k in exclude_keywords if k.strip()]
ExcludeKeywordsFromEnv(raw) ==
    LET kept == NonBlank(raw) IN [j \in 1..Len(kept) |-> Strip(kept[j])]

\* KEYWORDS split at the commas; "".split(",") is [""], never []
EnvKeywordLists ==
    { << <<>> >>,
      << <<"a">> >>,
      << <<" ", "A", " ">>, <<" ">> >>,
      << <<"X">>, <<"t">> >>,
      << <<>>, <<"x", " ">> >> }

\* KEYWORDS_EXCLUDE split at the commas
EnvExcludeLists ==
    { << <<>> >>,
      << <<"t">> >>,
      << <<" ", "T">>, <<>> >>,
      << <<" ">>, <<"X", " ">> >> }

EnvRefLists == UNION { { ts \in [1..n -> Refs] : SortedByOffset(ts) } : n \in 0..MaxEnvRefs }

InitEnv ==
    /\ timestamps \in EnvRefLists
    /\ keywords = <<>>
    /\ exclude_keywords = <<>>
    /\ segments = <<>>
    /\ parser_pc = "env"
    /\ playlist = <<>>
    /\ env_keywords \in EnvKeywordLists
    /\ env_exclude \in EnvExcludeLists
    /\ InitDurable
    /\ InitThreads
    /\ ClockIdle
    /\ RetryIdle
    /\ DrainIdle

\* main(): keywords and exclude_keywords as they are handed to the item
ReadEnv ==
    /\ parser_pc = "env"
    /\ keywords' = get_keywords_from_env(env_keywords)
    /\ exclude_keywords' = ExcludeKeywordsFromEnv(env_exclude)
    /\ parser_pc' = "input"
    /\ UNCHANGED <<timestamps, segments, playlist, envVars, drainVars,
                   sleeps_since_shutdown, clockVars, retryVars>>
    /\ UNCHANGED <<durableVars, lockVars, mainVars, schedVars>>

NextEnv == ReadEnv \/ FindSegments

SpecEnv == InitEnv /\ [][NextEnv]_vars

\* ------------------------------------------ CommentParser.extract_timestamps
\* the code points of the model's alphabet, for the comparison of str values
CharRank == [c \in {" ", "A", "T", "X", "_", "a", "t", "x"} |->
                CASE c = " " -> 32 [] c = "A" -> 65 [] c = "T" -> 84 [] c = "X" -> 88
                  [] c = "_" -> 95 [] c = "a" -> 97 [] c = "t" -> 116 [] c = "x" -> 120]

\* str < str
RECURSIVE StrLess(_, _)
StrLess(a, b) ==
    IF b = <<>> THEN FALSE
    ELSE IF a = <<>> THEN TRUE
    ELSE IF Head(a) = Head(b) THEN StrLess(Tail(a), Tail(b))
    ELSE CharRank[Head(a)] < CharRank[Head(b)]

\* (int, str) < (int, str): the comparison sorted() applies to the tuples
TupleLess(a, b) == a[1] < b[1] \/ (a[1] = b[1] /\ StrLess(a[2], b[2]))

\* t put into the sorted list after every element that is not greater
RECURSIVE InsertSorted(_, _)
InsertSorted(sorted, t) ==
    IF sorted = <<>> THEN <<t>>
    ELSE IF TupleLess(t, Head(sorted)) THEN <<t>> \o sorted
    ELSE <<Head(sorted)>> \o InsertSorted(Tail(sorted), t)

\* sorted(timestamps)
RECURSIVE SortedTuples(_, _)
SortedTuples(ts, k) ==
    IF k = 0 THEN <<>> ELSE InsertSorted(SortedTuples(ts, k - 1), ts[k])

\* the (seconds, description) matches of the comments, in scan order
MatchLists == UNION { [1..n -> Refs] : n \in 0..MaxRefs }

InitExtract ==
    /\ timestamps \in MatchLists
    /\ keywords = <<>>
    /\ exclude_keywords = <<>>
    /\ segments = <<>>
    /\ parser_pc = "scanned"
    /\ playlist = <<>>
    /\ InitDurable
    /\ InitThreads
    /\ ClockIdle
    /\ RetryIdle
    /\ EnvUnset
    /\ DrainIdle

\* return sorted(timestamps)
ExtractTimestamps ==
    /\ parser_pc = "scanned"
    /\ timestamps' = SortedTuples(timestamps, Len(timestamps))
    /\ parser_pc' = "extracted"
    /\ UNCHANGED <<keywords, exclude_keywords, segments, playlist, envVars, drainVars,
                   sleeps_since_shutdown, clockVars, retryVars>>
    /\ UNCHANGED <<durableVars, lockVars, mainVars, schedVars>>

NextExtract == ExtractTimestamps

SpecExtract == InitExtract /\ [][NextExtract]_vars

\* ------------------------------------------- the documented reference list
\* the references of the documented scenario, as extract_timestamps returns them
ScenarioRefs ==
    << <<10, <<"i", "n", "t", "r", "o">>>>,
       <<70, <<"a", "s", "m", "r", " ", "t", "a", "p", "p", "i", "n", "g">>>>,
       <<130, <<"a", "s", "m", "r", " ", "t", "a", "p", "p", "i", "n", "g">>>>,
       <<300, <<"t", "a", "l", "k">>>>,
       <<600, <<"a", "s", "m", "r", " ", "b", "r", "u", "s", "h", "i", "n", "g">>>> >>

\* the references of ScenarioRefs at the indices of S, in list order
RECURSIVE PickRefs(_, _)
PickRefs(S, k) ==
    IF k > Len(ScenarioRefs) THEN <<>>
    ELSE IF k \in S THEN <<ScenarioRefs[k]>> \o PickRefs(S, k + 1)
         ELSE PickRefs(S, k + 1)

ScenarioKeywordLists == { << <<"a", "s", "m", "r">> >>, << <<"t", "a", "l", "k">> >> }

ScenarioExcludeLists == { <<>>, << <<"t", "a", "p", "p", "i", "n", "g">> >>, << <<" ", "T", "a", "l", "k">> >> }

InitScenario ==
    /\ timestamps \in { PickRefs(S, 1) : S \in SUBSET (1..Len(ScenarioRefs)) }
    /\ keywords \in ScenarioKeywordLists
    /\ exclude_keywords \in ScenarioExcludeLists
    /\ segments = <<>>
    /\ parser_pc = "input"
    /\ playlist = <<>>
    /\ InitDurable
    /\ InitThreads
    /\ ClockIdle
    /\ RetryIdle
    /\ EnvUnset
    /\ DrainIdle

SpecScenario == InitScenario /\ [][NextParser]_vars

\* ------------------------------------------- DatabaseManager on its own
\* the callers of DatabaseManager in any order; `passes` is the clock that
\* datetime.now() reads, one tick per call
LedgerIds == {"v1", "v2"}

LedgerTitles(id) == { ItemTitle(id), <<"T", "2">> }

LedgerPaths(id) == { NoPath, <<id, 0>> }

InitLedger ==
    /\ timestamps = <<>>
    /\ keywords = <<>>
    /\ exclude_keywords = <<>>
    /\ segments = <<>>
    /\ parser_pc = "ledger"
    /\ playlist = <<>>
    /\ InitDurable
    /\ InitThreads
    /\ ClockIdle
    /\ RetryIdle
    /\ EnvUnset
    /\ DrainIdle

\* one call of add_processed_video(video_id, title, compilation_path)
AddProcessedVideo(id, title, path) ==
    /\ parser_pc = "ledger"
    /\ passes < MaxCalls
    /\ ledger' = add_processed_video(ledger, id, title, path, passes)
    /\ passes' = passes + 1
    /\ UNCHANGED <<parserVars, catalog, published, raw_files, clip_files,
                   compilation_files, lockVars, pc, queue, itemVars, schedVars>>

\* one call of mark_as_uploaded(video_id)
MarkAsUploaded(id) ==
    /\ parser_pc = "ledger"
    /\ passes < MaxCalls
    /\ ledger' = mark_as_uploaded(ledger, id, passes)
    /\ passes' = passes + 1
    /\ UNCHANGED <<parserVars, catalog, published, raw_files, clip_files,
                   compilation_files, lockVars, pc, queue, itemVars, schedVars>>

AddCall == \E id \in LedgerIds : \E title \in LedgerTitles(id), path \in LedgerPaths(id) :
               AddProcessedVideo(id, title, path)

MarkCall == \E id \in LedgerIds : MarkAsUploaded(id)

NextLedger == AddCall \/ MarkCall

SpecLedger == InitLedger /\ [][NextLedger]_vars

\* ------------------------------------------ a batch of two source videos
\* the main thread alone, over a playlist that lists two videos
InitBatch ==
    /\ timestamps = <<>>
    /\ keywords = EnvKeywords
    /\ exclude_keywords = EnvExcludeKeywords
    /\ segments = <<>>
    /\ parser_pc = "orchestrator"
    /\ playlist = <<"v1", "v2">>
    /\ InitDurable
    /\ InitThreads
    /\ ClockIdle
    /\ RetryIdle
    /\ EnvUnset
    /\ DrainIdle

NextBatch ==
    \/ StartPass
    \/ NextItem
    \/ CheckRemote
    \/ FetchReferences
    \/ AcquireAndBuild
    \/ ProcessSegments
    \/ UploadAcquire
    \/ RemoteUpload
    \/ MarkUploaded
    \/ Cleanup

SpecBatch == InitBatch /\ [][NextBatch]_vars

\* ------------------------------------------------- main(): the drain loops
Min(a, b) == IF a < b THEN a ELSE b

\* mutant of get_playlist_videos: the slice starts one item late
get_playlist_videos_OneLate(pl, max_results, start, api) ==
    IF api = "raises" THEN <<>>
    ELSE SubSeq(pl, start + 2, Min(start + max_results + 1, Len(pl)))

\* YouTubeAPI.get_playlist_videos: all_videos[start_index:start_index + max_results],
\* [] when the request raises
get_playlist_videos(pl, max_results, start, api) ==
    IF api = "raises" THEN <<>>
    ELSE SubSeq(pl, start + 1, Min(start + max_results, Len(pl)))

SourceVideos == <<"v1", "v2", "v3", "v4", "v5">>

InitDrain ==
    /\ timestamps = <<>>
    /\ keywords = EnvKeywords
    /\ exclude_keywords = EnvExcludeKeywords
    /\ segments = <<>>
    /\ parser_pc = "orchestrator"
    /\ playlist \in { SubSeq(SourceVideos, 1, n) : n \in 0..MaxPlaylist }
    /\ InitDurable
    /\ InitThreads
    /\ ClockIdle
    /\ RetryIdle
    /\ EnvUnset
    /\ shutdown = FALSE
    /\ paused = FALSE
    /\ drain_mode \in {"immediate", "scheduled"}
    /\ drain_pc = "while"
    /\ start_index = 0
    /\ video_ids = <<>>
    /\ listings = <<>>
    /\ observed_shutdown = FALSE
    /\ observed_paused = FALSE
    /\ started = <<>>

drainOther == <<timestamps, segments, keywords, exclude_keywords, parser_pc, playlist, envVars,
                durableVars, lockVars, mainVars, schedVars, clockVars, retryVars>>

drainRest == <<drainOther, sleeps_since_shutdown>>

\* GracefulShutdown.exit_gracefully
ExitGracefully ==
    /\ ~shutdown
    /\ shutdown' = TRUE
    /\ UNCHANGED <<paused, drain_mode, drain_pc, start_index, video_ids, listings,
                   observed_shutdown, observed_paused, started, drainRest>>

\* PauseHandler._pause_listener: the spacebar toggles paused
PauseListener ==
    /\ drain_pc # "done"
    /\ paused' = ~paused
    /\ UNCHANGED <<shutdown, drain_mode, drain_pc, start_index, video_ids, listings,
                   observed_shutdown, observed_paused, started, drainRest>>

\* while not shutdown_handler.shutdown
DrainWhile ==
    /\ drain_pc = "while"
    /\ observed_shutdown' = (observed_shutdown \/ shutdown)
    /\ drain_pc' = IF shutdown THEN "done" ELSE "pause_wait"
    /\ UNCHANGED <<shutdown, paused, drain_mode, start_index, video_ids, listings,
                   observed_paused, started, drainRest>>

\* mutant of PauseLoop: `while pause_handler.paused`, the shutdown flag not read
PauseLoop_IgnoresShutdown(at, sleep, after) ==
    /\ drain_pc = at
    /\ observed_paused' = paused
    /\ drain_pc' = IF paused THEN sleep ELSE after
    /\ UNCHANGED <<shutdown, paused, drain_mode, start_index, video_ids, listings,
                   observed_shutdown, started, drainRest>>

\* one evaluation of `while pause_handler.paused and not shutdown_handler.shutdown`
\* at position at: the body at sleep, the statement after the loop at after
PauseLoop(at, sleep, after) ==
    /\ drain_pc = at
    /\ observed_paused' = paused
    /\ observed_shutdown' = (observed_shutdown \/ (paused /\ shutdown))
    /\ drain_pc' = IF paused /\ ~shutdown THEN sleep ELSE after
    /\ UNCHANGED <<shutdown, paused, drain_mode, start_index, video_ids, listings,
                   started, drainRest>>

\* the count of the sleeps begun with shutdown set, after one more sleep
SleepsCounted(count, stopping) == IF stopping /\ count < TickCap THEN count + 1 ELSE count

\* time.sleep(1) in a pause loop
SleepTick(sleep, at) ==
    /\ drain_pc = sleep
    /\ drain_pc' = at
    /\ sleeps_since_shutdown' = SleepsCounted(sleeps_since_shutdown, shutdown)
    /\ UNCHANGED <<shutdown, paused, drain_mode, start_index, video_ids, listings,
                   observed_shutdown, observed_paused, started, drainOther>>

\* the pause loop of a drain loop; only the immediate loop tests shutdown after it
DrainPause ==
    PauseLoop("pause_wait", "pause_sleep", IF drain_mode = "immediate" THEN "recheck" ELSE "fetch")

DrainSleep == SleepTick("pause_sleep", "pause_wait")

\* immediate drain: if shutdown_handler.shutdown: break
DrainRecheck ==
    /\ drain_pc = "recheck"
    /\ observed_shutdown' = (observed_shutdown \/ shutdown)
    /\ drain_pc' = IF shutdown THEN "done" ELSE "fetch"
    /\ UNCHANGED <<shutdown, paused, drain_mode, start_index, video_ids, listings,
                   observed_paused, started, drainRest>>

\* video_ids = youtube.get_playlist_videos(...); if not video_ids: break
FetchBatch ==
    /\ drain_pc = "fetch"
    /\ \E api \in {"answers", "raises"} :
          /\ video_ids' = get_playlist_videos(playlist, BatchSize, start_index, api)
          /\ listings' = Append(listings, [start_index |-> start_index,
                                           returned |-> Len(video_ids')])
          /\ drain_pc' = IF video_ids' = <<>> THEN "done" ELSE "for"
    /\ UNCHANGED <<shutdown, paused, drain_mode, start_index, observed_shutdown,
                   observed_paused, started, drainRest>>

\* process_batch_of_videos: for video_id in video_ids: if shutdown: return False
BatchFor ==
    /\ drain_pc = "for"
    /\ IF video_ids = <<>>
       THEN /\ drain_pc' = "advance"
            /\ UNCHANGED observed_shutdown
       ELSE /\ observed_shutdown' = (observed_shutdown \/ shutdown)
            /\ drain_pc' = IF shutdown THEN "advance" ELSE "item_pause"
    /\ UNCHANGED <<shutdown, paused, drain_mode, start_index, video_ids, listings,
                   observed_paused, started, drainRest>>

BatchPause == PauseLoop("item_pause", "item_sleep", "item_recheck")

BatchSleep == SleepTick("item_sleep", "item_pause")

\* if shutdown: return False, else process_and_upload_video(video_id, ...)
BatchStartItem ==
    /\ drain_pc = "item_recheck"
    /\ observed_shutdown' = (observed_shutdown \/ shutdown)
    /\ IF shutdown
       THEN /\ drain_pc' = "advance"
            /\ UNCHANGED <<video_ids, started>>
       ELSE /\ drain_pc' = "item_processing"
            /\ started' = Append(started, [video_id |-> Head(video_ids), published |-> FALSE])
            /\ video_ids' = Tail(video_ids)
    /\ UNCHANGED <<shutdown, paused, drain_mode, start_index, listings, observed_paused,
                   drainRest>>

\* process_and_upload_video up to its publish step, or to a return before it
ItemProcess ==
    /\ drain_pc = "item_processing"
    /\ drain_pc' \in {"item_publish", "for"}
    /\ UNCHANGED <<shutdown, paused, drain_mode, start_index, video_ids, listings,
                   observed_shutdown, observed_paused, started, drainRest>>

\* scheduler.upload_video and the return to the for loop
ItemPublish ==
    /\ drain_pc = "item_publish"
    /\ started' = [started EXCEPT ![Len(started)].published = TRUE]
    /\ drain_pc' = "for"
    /\ UNCHANGED <<shutdown, paused, drain_mode, start_index, video_ids, listings,
                   observed_shutdown, observed_paused, drainRest>>

\* start_index += batch_size
DrainAdvance ==
    /\ drain_pc = "advance"
    /\ start_index' = start_index + BatchSize
    /\ drain_pc' = "while"
    /\ UNCHANGED <<shutdown, paused, drain_mode, video_ids, listings, observed_shutdown,
                   observed_paused, started, drainRest>>

NextDrain ==
    \/ ExitGracefully
    \/ PauseListener
    \/ DrainWhile
    \/ DrainPause
    \/ DrainSleep
    \/ DrainRecheck
    \/ FetchBatch
    \/ BatchFor
    \/ BatchPause
    \/ BatchSleep
    \/ BatchStartItem
    \/ ItemProcess
    \/ ItemPublish
    \/ DrainAdvance

SpecDrain == InitDrain /\ [][NextDrain]_vars

\* ----------------------------------- schedule_uploads over a filled ledger
\* the scheduler thread alone, over rows that earlier runs left pending, with
\* uploads that succeed
InitUploads ==
    /\ timestamps = <<>>
    /\ keywords = EnvKeywords
    /\ exclude_keywords = EnvExcludeKeywords
    /\ segments = <<>>
    /\ parser_pc = "orchestrator"
    /\ playlist = <<"v1", "v2", "v3">>
    /\ InitDurable
    /\ InitThreads
    /\ ClockIdle
    /\ RetryIdle
    /\ EnvUnset
    /\ DrainIdle

\* youtube_api.upload_video returns the id of the new video
SchedUploadSucceeds == SchedRemoteUpload /\ sched_response' = "id"

ScheduleUploads == SchedPoll \/ SchedAcquire \/ SchedUploadSucceeds \/ SchedMark

NextUploads == RecordStarted \/ ScheduleUploads

\* the `while True` loop of schedule_uploads keeps running
SpecUploads == InitUploads /\ [][NextUploads]_vars /\ WF_vars(ScheduleUploads)

\* ------------------------------------------------------ retry_with_backoff
\* the values drawn for backoff_in_seconds
BackoffChoices == {1, 2}

\* random.uniform(0, 1), in tenths of a second: both ends and the middle
JitterTenths == {0, 5, 10}

\* mutant of BackoffWait: the wait grows linearly
BackoffWait_Linear(backoff, k, jitter) == (backoff * (k + 1)) * 10 + jitter

\* wait = backoff_in_seconds * 2 ** x + random.uniform(0, 1), in tenths of a second
BackoffWait(backoff, k, jitter) == (backoff * 2^k) * 10 + jitter

\* mutant of GivesUp: one retry too many
GivesUp_Late(k, n) == k = n + 1

\* if x == retries: raise
GivesUp(k, n) == k = n

InitRetry ==
    /\ timestamps = <<>>
    /\ keywords = <<>>
    /\ exclude_keywords = <<>>
    /\ segments = <<>>
    /\ parser_pc = "retry"
    /\ playlist = <<>>
    /\ InitDurable
    /\ InitThreads
    /\ EnvUnset
    /\ DrainIdle
    /\ ClockIdle
    /\ retry_pc = "call"
    /\ retries \in 0..MaxRetries
    /\ backoff_in_seconds \in BackoffChoices
    /\ x = 0
    /\ invocations = <<>>
    /\ waits = <<>>

retryRest == <<timestamps, segments, keywords, exclude_keywords, parser_pc, playlist, envVars,
               drainVars, sleeps_since_shutdown, clockVars, durableVars, lockVars, mainVars,
               schedVars>>

\* try: return func(*args, **kwargs)
RetryCall ==
    /\ retry_pc = "call"
    /\ \E outcome \in {"returns", "raises"} :
          /\ invocations' = Append(invocations, outcome)
          /\ retry_pc' = IF outcome = "returns" THEN "returned" ELSE "except"
    /\ UNCHANGED <<retries, backoff_in_seconds, x, waits, retryRest>>

\* except Exception: raise on the last attempt, else sleep and count
RetryExcept ==
    /\ retry_pc = "except"
    /\ IF GivesUp(x, retries)
       THEN /\ retry_pc' = "raised"
            /\ UNCHANGED <<x, waits>>
       ELSE /\ \E jitter \in JitterTenths :
                 waits' = Append(waits, BackoffWait(backoff_in_seconds, x, jitter))
            /\ x' = x + 1
            /\ retry_pc' = "call"
    /\ UNCHANGED <<retries, backoff_in_seconds, invocations, retryRest>>

NextRetry == RetryCall \/ RetryExcept

SpecRetry == InitRetry /\ [][NextRetry]_vars

\* ------------------------------------------- UploadScheduler.is_schedule_time
Abs(n) == IF n < 0 THEN -n ELSE n

\* schedule_minutes = hour * 60 + minute
ScheduleMinutes(t) == t[1] * 60 + t[2]

\* mutant of is_schedule_time: only the exact minute matches
is_schedule_time_Exact(current_minutes, times) ==
    \E k \in 1..Len(times) : current_minutes = ScheduleMinutes(times[k])

\* any(abs(current_minutes - schedule_minutes) <= 5 for the configured times)
is_schedule_time(current_minutes, times) ==
    \E k \in 1..Len(times) : Abs(current_minutes - ScheduleMinutes(times[k])) <= Tolerance

\* UPLOAD_TIMES as _parse_upload_times returns it: valid pairs, sorted
TimesConfigs ==
    { << <<10, 0>>, <<18, 0>> >>,
      << <<0, 2>> >>,
      << <<23, 57>> >>,
      << <<0, 0>>, <<12, 0>> >> }

scheduleRest == <<timestamps, segments, keywords, exclude_keywords, parser_pc, playlist, envVars,
                  durableVars, lockVars, mainVars, schedVars, retryVars>>

\* main.py 419-422: if scheduler.is_schedule_time(): batch_size = 50; start_index = 0
CheckSchedule ==
    /\ drain_pc = "sched_check"
    /\ IF is_schedule_time(wall_clock, upload_times)
       THEN /\ drain_pc' = "while"
            /\ start_index' = 0
            /\ video_ids' = <<>>
            /\ listings' = <<>>
            /\ started' = <<>>
            /\ last_trigger' = wall_clock
            /\ UNCHANGED wait_i
       ELSE /\ drain_pc' = "wait"
            /\ wait_i' = 0
            /\ UNCHANGED <<start_index, video_ids, listings, started, last_trigger>>
    /\ UNCHANGED <<shutdown, paused, drain_mode, observed_shutdown, observed_paused,
                   sleeps_since_shutdown, wall_clock, elapsed, upload_times, scheduleRest>>

\* is_schedule_time at every minute of the day
InitClock ==
    /\ timestamps = <<>>
    /\ keywords = EnvKeywords
    /\ exclude_keywords = EnvExcludeKeywords
    /\ segments = <<>>
    /\ parser_pc = "orchestrator"
    /\ playlist = <<>>
    /\ InitDurable
    /\ InitThreads
    /\ EnvUnset
    /\ RetryIdle
    /\ shutdown = FALSE
    /\ paused = FALSE
    /\ drain_mode = "scheduled"
    /\ drain_pc = "sched_check"
    /\ start_index = 0
    /\ video_ids = <<>>
    /\ listings = <<>>
    /\ observed_shutdown = FALSE
    /\ observed_paused = FALSE
    /\ started = <<>>
    /\ sleeps_since_shutdown = 0
    /\ wall_clock \in 0..(DayMinutes - 1)
    /\ elapsed = 0
    /\ upload_times \in TimesConfigs
    /\ wait_i = 0
    /\ last_trigger = -1

NextClock == CheckSchedule

SpecClock == InitClock /\ [][NextClock]_vars

\* ------------------------------------------------ main(): the schedule loop
\* the positions of the main thread outside the drain loops:
\* sched_while (410), sched_try (412), sched_pause (416), sched_check (419),
\* wait (463), except (469), backoff (472), cleanup (the finally clause, 477)

\* the start of the clock and the configured times
ClockChoices ==
    { [at |-> 594, times |-> << <<10, 0>>, <<18, 0>> >>],
      [at |-> 1436, times |-> << <<0, 2>> >>] }

SchedulePlaylists == { <<>>, <<"v1">>, <<"v1", "v2", "v3">> }

InitSchedule ==
    /\ timestamps = <<>>
    /\ keywords = EnvKeywords
    /\ exclude_keywords = EnvExcludeKeywords
    /\ segments = <<>>
    /\ parser_pc = "orchestrator"
    /\ playlist \in SchedulePlaylists
    /\ InitDurable
    /\ InitThreads
    /\ EnvUnset
    /\ RetryIdle
    /\ shutdown = FALSE
    /\ paused = FALSE
    /\ drain_mode \in {"immediate", "scheduled"}
    /\ drain_pc = IF drain_mode = "immediate" THEN "while" ELSE "sched_while"
    /\ start_index = 0
    /\ video_ids = <<>>
    /\ listings = <<>>
    /\ observed_shutdown = FALSE
    /\ observed_paused = FALSE
    /\ started = <<>>
    /\ sleeps_since_shutdown = 0
    /\ \E c \in ClockChoices :
          /\ wall_clock = c.at
          /\ upload_times = c.times
    /\ elapsed = 0
    /\ wait_i = 0
    /\ last_trigger = -1

\* a minute of wall-clock time passes
MinutePasses ==
    /\ drain_pc # "cleanup"
    /\ elapsed < MaxElapsed
    /\ elapsed' = elapsed + 1
    /\ wall_clock' = (wall_clock + 1) % DayMinutes
    /\ UNCHANGED <<drainVars, sleeps_since_shutdown, upload_times, wait_i, last_trigger,
                   scheduleRest>>

\* while not shutdown_handler.shutdown (410)
LoopWhile ==
    /\ drain_pc = "sched_while"
    /\ observed_shutdown' = (observed_shutdown \/ shutdown)
    /\ drain_pc' = IF shutdown THEN "cleanup" ELSE "sched_try"
    /\ UNCHANGED <<shutdown, paused, drain_mode, start_index, video_ids, listings,
                   observed_paused, started, drainRest>>

\* try: if shutdown_handler.shutdown: break (411-413)
LoopTry ==
    /\ drain_pc = "sched_try"
    /\ observed_shutdown' = (observed_shutdown \/ shutdown)
    /\ drain_pc' = IF shutdown THEN "cleanup" ELSE "sched_pause"
    /\ UNCHANGED <<shutdown, paused, drain_mode, start_index, video_ids, listings,
                   observed_paused, started, drainRest>>

LoopPause == PauseLoop("sched_pause", "sched_pause_sleep", "sched_check")

LoopPauseSleep == SleepTick("sched_pause_sleep", "sched_pause")

\* the end of a drain loop: the immediate drain falls through to the schedule
\* loop, the scheduled drain to the wait between two checks
AfterDrain ==
    /\ drain_pc = "done"
    /\ IF drain_mode = "immediate"
       THEN /\ drain_mode' = "scheduled"
            /\ drain_pc' = "sched_while"
            /\ UNCHANGED wait_i
       ELSE /\ drain_pc' = "wait"
            /\ wait_i' = 0
            /\ UNCHANGED drain_mode
    /\ UNCHANGED <<shutdown, paused, start_index, video_ids, listings, observed_shutdown,
                   observed_paused, started, sleeps_since_shutdown, wall_clock, elapsed,
                   upload_times, last_trigger, scheduleRest>>

\* the head of `for _ in range(ticks): if shutdown: break` at position at
WaitLoop(at, sleep, ticks) ==
    /\ drain_pc = at
    /\ IF wait_i = ticks
       THEN /\ drain_pc' = "sched_while"
            /\ UNCHANGED observed_shutdown
       ELSE /\ observed_shutdown' = (observed_shutdown \/ shutdown)
            /\ drain_pc' = IF shutdown THEN "sched_while" ELSE sleep
    /\ UNCHANGED <<shutdown, paused, drain_mode, start_index, video_ids, listings,
                   observed_paused, started, drainRest>>

\* time.sleep(10) in a wait loop
WaitSleep(sleep, at) ==
    /\ drain_pc = sleep
    /\ drain_pc' = at
    /\ wait_i' = wait_i + 1
    /\ sleeps_since_shutdown' = SleepsCounted(sleeps_since_shutdown, shutdown)
    /\ UNCHANGED <<shutdown, paused, drain_mode, start_index, video_ids, listings,
                   observed_shutdown, observed_paused, started, wall_clock, elapsed,
                   upload_times, last_trigger, scheduleRest>>

LoopWait == WaitLoop("wait", "wait_sleep", WaitTicks)

LoopWaitSleep == WaitSleep("wait_sleep", "wait")

\* a statement of the loop body raises: caught at 468 in the schedule loop,
\* not caught in the immediate drain, where the finally clause is next
LoopRaises ==
    /\ drain_pc = "fetch"
    /\ drain_pc' = IF drain_mode = "immediate" THEN "cleanup" ELSE "except"
    /\ UNCHANGED <<shutdown, paused, drain_mode, start_index, video_ids, listings,
                   observed_shutdown, observed_paused, started, drainRest>>

\* except Exception: if not shutdown_handler.shutdown (468-470)
LoopExcept ==
    /\ drain_pc = "except"
    /\ observed_shutdown' = (observed_shutdown \/ shutdown)
    /\ drain_pc' = IF shutdown THEN "sched_while" ELSE "backoff"
    /\ wait_i' = 0
    /\ UNCHANGED <<shutdown, paused, drain_mode, start_index, video_ids, listings,
                   observed_paused, started, sleeps_since_shutdown, wall_clock, elapsed,
                   upload_times, last_trigger, scheduleRest>>

LoopBackoff == WaitLoop("backoff", "backoff_sleep", BackoffTicks)

LoopBackoffSleep == WaitSleep("backoff_sleep", "backoff")

MainThread ==
    \/ DrainWhile
    \/ DrainPause
    \/ DrainSleep
    \/ DrainRecheck
    \/ FetchBatch
    \/ BatchFor
    \/ BatchPause
    \/ BatchSleep
    \/ BatchStartItem
    \/ ItemProcess
    \/ ItemPublish
    \/ DrainAdvance
    \/ AfterDrain
    \/ LoopWhile
    \/ LoopTry
    \/ LoopPause
    \/ LoopPauseSleep
    \/ CheckSchedule
    \/ LoopWait
    \/ LoopWaitSleep
    \/ LoopRaises
    \/ LoopExcept
    \/ LoopBackoff
    \/ LoopBackoffSleep

NextSchedule ==
    \/ ExitGracefully
    \/ PauseListener
    \/ MinutePasses
    \/ MainThread

\* the main thread keeps running
SpecSchedule == InitSchedule /\ [][NextSchedule]_vars /\ WF_vars(MainThread)

\* ------------------------------------------------------------------ claims

\* C1: for every source id, across passes, restarts and crashes, the publish
\* call succeeds at most once.
C1_PublishedAtMostOnce == \A id \in VideoIds : published[id] <= 1

\* C2: the orchestrator is never inside the publish call for an item the
\* ledger already marks uploaded.
C2_UploadedNeverResubmitted ==
    ~(pc = "remote_upload" /\ get_video_status(ledger, video_id) = "uploaded")

\* C3: once the compilation of a source id is published, its description
\* carries the fingerprint, so the remote check over the published
\* compilations answers true.
C3_PublishedIsFound ==
    LET PipelineVideos(id) ==
            { e \in catalog : e.source = id /\ e.description # ReupDescription(id) }
    IN  \A id \in VideoIds :
            published[id] > 0 => check_if_uploaded(PipelineVideos(id), id, "answers")

\* C4: a row becomes uploaded only in a step of the caller whose remote call
\* returned an id, and upload_video answers True only after such a call.
C4_MarkedOnlyOnConfirmedPublish ==
    [][ /\ \A id \in VideoIds :
             (/\ get_video_status(ledger, id) = "pending"
              /\ get_video_status(ledger', id) = "uploaded") =>
                 IF pc' # pc THEN response = "id" ELSE sched_response = "id"
        /\ upload_ok' = "True" => response' = "id" ]_vars

\* C5: when the publish step failed, the clips of the run and its compilation
\* are on disk when the item ends.
C5_ArtifactsKeptOnFailure ==
    (pc = "item_done" /\ upload_ok = "False") =>
        /\ Range(clip_paths) \subseteq clip_files
        /\ compilation_path \in compilation_files

\* C6: a raw download found on disk (whatever the ledger holds, no row
\* included) is the clip input, the download collaborator is not invoked, and
\* the file is still on disk after a successful publish.
C6_ExistingRawReused ==
    existing_video =>
        /\ ~called_download
        /\ pc \in {"process", "upload", "remote_upload", "mark", "cleanup"} =>
               (video_path = video_id /\ video_id \in raw_files)
        /\ (pc = "item_done" /\ upload_ok = "True") => video_id \in raw_files

C6_Witness ==
    /\ pc = "item_done"
    /\ existing_video
    /\ upload_ok = "True"
    /\ response = "id"
    /\ ~HasRow(ledger, video_id)
    /\ clip_paths # <<>>
    /\ video_id \in raw_files

\* C7: after a successful publish no clip file of the item is on disk, and the
\* raw download is gone exactly when this run downloaded it.
C7_CleanAfterPublish ==
    (pc = "item_done" /\ upload_ok = "True") =>
        /\ { c \in clip_files : c.video_id = video_id } = {}
        /\ (video_id \notin raw_files) <=> called_download

\* C8: the two callers are never inside the remote upload call together, the
\* lock is held while one is, a caller is never blocked at the acquire, and a
\* caller that finds the lock held leaves without it: upload_video answers
\* False, schedule_uploads goes back to polling.
C8_NoConcurrentUpload ==
    /\ [](~(pc \in {"remote_upload", "mark"} /\ sched_pc \in {"remote_upload", "mark"}))
    /\ []((pc \in {"remote_upload", "mark"} \/ sched_pc \in {"remote_upload", "mark"})
              => upload_lock)
    /\ []((pc = "upload" => ENABLED UploadAcquire)
              /\ (sched_pc = "acquire" => ENABLED SchedAcquire))
    /\ [][ /\ (pc = "upload" /\ pc' \notin {"upload", "idle"} /\ upload_lock)
                => (pc' = "cleanup" /\ upload_ok' = "False" /\ upload_lock' = upload_lock)
           /\ (sched_pc = "acquire" /\ sched_pc' # "acquire" /\ pc' = pc /\ upload_lock)
                => (sched_pc' = "poll" /\ upload_lock' = upload_lock) ]_vars

C8_Witness ==
    /\ sched_pc = "remote_upload"
    /\ pc = "cleanup"
    /\ upload_ok = "False"
    /\ response = None
    /\ compilation_path \in compilation_files

\* C9: for a reference list sorted ascending by offset the returned segments
\* are in ascending order of start time and pairwise non-overlapping: each
\* segment's end is not after the next segment's start.
C9_AscendingNonOverlapping ==
    parser_pc = "built" =>
        \A k \in 1..(Len(segments) - 1) :
            /\ segments[k][1] <= segments[k + 1][1]
            /\ segments[k][2] <= segments[k + 1][1]

C9_Witness ==
    /\ parser_pc = "built"
    /\ Len(segments) >= 2
    /\ segments[1][2] < segments[2][1]

\* C10: every returned segment satisfies start_seconds < end_seconds, also
\* when several references share the same offset.
C10_StartBeforeEnd ==
    parser_pc = "built" =>
        \A k \in 1..Len(segments) : segments[k][1] < segments[k][2]

\* C11: selected references adjacent in the full list share a segment and a
\* gap of two or more indices splits: the segments are, in order, the maximal
\* runs of index-adjacent selected references, each starting at the offset of
\* the first reference of its run.
C11_SegmentsAreRuns ==
    parser_pc = "built" =>
        LET m == MatchedIndices(timestamps, keywords, exclude_keywords)
            RunStarts == { j \in 1..Len(m) : j = 1 \/ m[j] - m[j - 1] >= 2 }
            RunsBefore(j) == Cardinality({ r \in RunStarts : r <= j })
        IN  /\ Len(segments) = Cardinality(RunStarts)
            /\ \A j \in RunStarts : segments[RunsBefore(j)][1] = timestamps[m[j]][1]

C11_Witness ==
    /\ parser_pc = "built"
    /\ MatchedIndices(timestamps, keywords, exclude_keywords) = <<1, 2, 4>>
    /\ Len(segments) = 2
    /\ segments[1][1] < segments[2][1]

\* C12: the end of every segment is the offset of the reference that follows
\* the segment's last selected index in the full list; the last segment, when
\* its last selected reference closes the list, ends PadSeconds after it.
C12_EndIsNextOffset ==
    parser_pc = "built" =>
        LET m == MatchedIndices(timestamps, keywords, exclude_keywords)
            RunEnds == { j \in 1..Len(m) : j = Len(m) \/ m[j + 1] - m[j] >= 2 }
            RunsUpTo(j) == Cardinality({ r \in RunEnds : r <= j })
        IN  \A j \in RunEnds :
                /\ RunsUpTo(j) <= Len(segments)
                /\ segments[RunsUpTo(j)][2] =
                       IF m[j] < Len(timestamps)
                       THEN timestamps[m[j] + 1][1]
                       ELSE timestamps[m[j]][1] + 60

C12_Witness ==
    /\ parser_pc = "built"
    /\ Len(timestamps) = 4
    /\ MatchedIndices(timestamps, keywords, exclude_keywords) = <<1, 2, 4>>
    /\ timestamps[3][1] = 1
    /\ segments[1][2] = 1
    /\ segments[2][2] = timestamps[4][1] + 60

\* C13: a reference whose case-folded label contains an include keyword and
\* an exclude keyword is never selected, and every segment takes its start
\* and its label from references that are not of that kind.
C13_ExcludeWins ==
    parser_pc = "built" =>
        LET m == MatchedIndices(timestamps, keywords, exclude_keywords)
            Both(i) ==
                /\ \E j \in 1..Len(keywords) :
                       Contains(Lower(timestamps[i][2]), Lower(keywords[j]))
                /\ \E j \in 1..Len(exclude_keywords) :
                       Contains(Lower(timestamps[i][2]), Lower(exclude_keywords[j]))
            Clean == { i \in 1..Len(timestamps) : ~Both(i) }
        IN  /\ \A i \in 1..Len(timestamps) : Both(i) => i \notin Range(m)
            /\ \A k \in 1..Len(segments) :
                   /\ \E i \in Clean : segments[k][1] = timestamps[i][1]
                   /\ \E i \in Clean : segments[k][3] = timestamps[i][2]
                   /\ \A i \in 1..Len(timestamps) :
                          Both(i) => segments[k][3] # timestamps[i][2]

C13_Witness ==
    /\ parser_pc = "built"
    /\ segments # <<>>
    /\ keywords = << <<"a">> >>
    /\ exclude_keywords = << <<"t">> >>
    /\ \E i \in 1..Len(timestamps) : timestamps[i][2] = <<"a", " ", "t">>

\* C14: when no reference's label contains an include keyword the result is
\* the empty list, whatever the exclude keywords.
C14_NoIncludeNoSegments ==
    parser_pc = "built" =>
        ((\A i \in 1..Len(timestamps) : \A j \in 1..Len(keywords) :
              ~Contains(Lower(timestamps[i][2]), Lower(keywords[j])))
            => segments = <<>>)

C14_Witness ==
    /\ parser_pc = "built"
    /\ Len(timestamps) >= 2
    /\ keywords = << <<"t">>, <<"x">> >>
    /\ exclude_keywords # <<>>
    /\ \A i \in 1..Len(timestamps) : timestamps[i][2] = <<"a">>
    /\ segments = <<>>

\* C15: every segment but the last carries the label of the first selected
\* reference of its run; the last segment carries the label of its last
\* selected reference.
C15_SegmentLabels ==
    parser_pc = "built" =>
        LET m == MatchedIndices(timestamps, keywords, exclude_keywords)
            RunStarts == { j \in 1..Len(m) : j = 1 \/ m[j] - m[j - 1] >= 2 }
            RunOf(j) == Cardinality({ r \in RunStarts : r <= j })
        IN  /\ \A j \in RunStarts :
                   (RunOf(j) <= Len(segments) /\ RunOf(j) < Cardinality(RunStarts))
                       => segments[RunOf(j)][3] = timestamps[m[j]][2]
            /\ m # <<>> =>
                   (segments # <<>>
                    /\ segments[Len(segments)][3] = timestamps[m[Len(m)]][2])

C15_Witness ==
    /\ parser_pc = "built"
    /\ MatchedIndices(timestamps, keywords, exclude_keywords) = <<1, 3, 4>>
    /\ timestamps[3][2] # timestamps[4][2]
    /\ timestamps[1][2] # timestamps[3][2]
    /\ Len(segments) = 2
    /\ segments[1][3] = timestamps[1][2]
    /\ segments[2][3] = timestamps[4][2]

\* C16: the five documented references with include ["asmr"] and no exclude
\* keyword give exactly [(70,300,"asmr tapping"), (600,660,"asmr brushing")].
C16_ScenarioA ==
    (/\ parser_pc = "built"
     /\ timestamps = ScenarioRefs
     /\ keywords = << <<"a", "s", "m", "r">> >>
     /\ exclude_keywords = <<>>)
        => segments = << <<70, 300, <<"a", "s", "m", "r", " ", "t", "a", "p", "p", "i", "n", "g">>>>,
                         <<600, 660, <<"a", "s", "m", "r", " ", "b", "r", "u", "s", "h", "i", "n", "g">>>> >>

C16_Witness ==
    /\ parser_pc = "built"
    /\ timestamps = ScenarioRefs
    /\ keywords = << <<"a", "s", "m", "r">> >>
    /\ exclude_keywords = <<>>
    /\ Len(segments) = 2

\* C17: the same references with include ["asmr"] and exclude ["tapping"]
\* give exactly [(600,660,"asmr brushing")].
C17_ScenarioB ==
    (/\ parser_pc = "built"
     /\ timestamps = ScenarioRefs
     /\ keywords = << <<"a", "s", "m", "r">> >>
     /\ exclude_keywords = << <<"t", "a", "p", "p", "i", "n", "g">> >>)
        => segments = << <<600, 660, <<"a", "s", "m", "r", " ", "b", "r", "u", "s", "h", "i", "n", "g">>>> >>

C17_Witness ==
    /\ parser_pc = "built"
    /\ timestamps = ScenarioRefs
    /\ keywords = << <<"a", "s", "m", "r">> >>
    /\ exclude_keywords = << <<"t", "a", "p", "p", "i", "n", "g">> >>
    /\ Len(segments) = 1

\* C18: add_processed_video is an insert-if-absent: a call for an id that has
\* a row changes nothing in the table, and under every interleaving with the
\* other calls a row, once there, stays the single row of its id with the
\* title, compilation path and processed date of the first call.
C18_IdempotentInsert ==
    [][ /\ \A id \in LedgerIds : \A title \in LedgerTitles(id), path \in LedgerPaths(id) :
             (HasRow(ledger, id) /\ AddProcessedVideo(id, title, path))
                 => ledger' = ledger
        /\ \A id \in DOMAIN ledger :
             /\ id \in DOMAIN ledger'
             /\ ledger'[id].title = ledger[id].title
             /\ ledger'[id].compilation_path = ledger[id].compilation_path
             /\ ledger'[id].processed_date = ledger[id].processed_date ]_vars

C18_Witness ==
    /\ parser_pc = "ledger"
    /\ passes = 3
    /\ DOMAIN ledger = {"v1"}
    /\ ledger["v1"].processed_date = 0
    /\ ledger["v1"].upload_status = "uploaded"
    /\ ledger["v1"].uploaded_date = <<1>>

C20_ItemFailureContained ==
    /\ [](pc # "idle" => ENABLED NextBatch)
    /\ [](pc = "idle" /\ passes < MaxPasses => ENABLED StartPass)
    /\ [][ /\ (pc = "item_done" /\ queue # <<>>)
                => (pc' = "check_remote" /\ video_id' = Head(queue) /\ queue' = Tail(queue))
           /\ (pc # "idle" /\ pc' = "idle") => (pc \in {"batch", "item_done"} /\ queue = <<>>)
         ]_vars

C20_Witness ==
    /\ pc = "fetch"
    /\ video_id = "v2"
    /\ passes = 1
    /\ "v1" \in raw_files
    /\ \E c \in clip_files : c.video_id = "v1"
    /\ compilation_files = {}
    /\ published["v1"] = 0

\* C22: for every item the remote check runs first, then the ledger lookup,
\* then the filesystem probe: every call that probes, downloads or creates an
\* artifact comes after a check_if_uploaded call and a later get_video_status
\* call of the item.
C22_RemoteLedgerFilesystem ==
    \A i \in 1..Len(calls) :
        calls[i].op \in {"check_existing_files", "download_video", "clip_video", "merge_clips"}
            => \E r, l \in 1..(i - 1) :
                   /\ r < l
                   /\ calls[r].op = "check_if_uploaded"
                   /\ calls[l].op = "get_video_status"

\* C23: an item the remote check reports as published ends with its ledger
\* status uploaded, and without a download, a cut or a publish call.
C23_BackfillOnRemoteHit ==
    (pc = "item_done" /\ calls # <<>> /\ calls[1] = Call("check_if_uploaded", <<>>, TRUE))
        => /\ get_video_status(ledger, video_id) = "uploaded"
           /\ Len(calls) = 1

\* C24: an item at the publish step has a ledger row, created (pending) when
\* the item began and before the publish call.
C24_RowBeforePublish ==
    pc \in {"upload", "remote_upload"} => HasRow(ledger, video_id)

\* C25: an item without references, or whose segment list is empty, ends
\* without a download_video call and without a publish call.
C25_SkipBeforeAcquire ==
    (/\ pc = "item_done"
     /\ \E i \in 1..Len(calls) :
           \/ calls[i].op = "get_video_comments" /\ calls[i].ok /\ timestamps = <<>>
           \/ calls[i].op = "find_continuous_segments" /\ ~calls[i].ok)
        => \A i \in 1..Len(calls) : calls[i].op \notin {"download_video", "upload_video"}

\* C26: every segment is cut, in segment order, whatever the cuts before it
\* answered; merge_clips is called once with exactly the clips whose cut
\* succeeded, in segment order; without such a clip there is neither a
\* merge_clips call nor a publish call.
C26_PartialCompilation ==
    LET IsClip(c) == c.op = "clip_video"
        IsCut(c) == c.op = "clip_video" /\ c.ok
        IsMerge(c) == c.op = "merge_clips"
        clips == SelectSeq(calls, IsClip)
        cut == SelectSeq(calls, IsCut)
        merges == SelectSeq(calls, IsMerge)
    IN  clips # <<>> =>
            /\ Len(clips) = Len(segments)
            /\ \A k \in 1..Len(clips) :
                   clips[k].arg = <<get_clip_path(video_id, segments[k][1],
                                                  segments[k][3], segments[k][2])>>
            /\ IF cut = <<>>
               THEN /\ merges = <<>>
                    /\ \A i \in 1..Len(calls) : calls[i].op # "upload_video"
               ELSE /\ Len(merges) = 1
                    /\ merges[1].arg = [k \in 1..Len(cut) |-> cut[k].arg[1]]

C26_Witness ==
    /\ pc = "upload"
    /\ Len(segments) = 2
    /\ Len(clip_paths) = 1
    /\ calls[Len(calls)] = Call("merge_clips", clip_paths, TRUE)
    /\ calls[Len(calls) - 2] =
           Call("clip_video", <<get_clip_path(video_id, segments[1][1],
                                              segments[1][3], segments[1][2])>>, FALSE)

\* C27: clip_video is not called for a segment whose clip file is already on
\* disk at the derived path.
C27_ExistingClipReused ==
    [][ \A i \in (Len(calls) + 1)..Len(calls') :
            calls'[i].op = "clip_video" => calls'[i].arg[1] \notin clip_files ]_vars

\* C29: extract_timestamps returns the matches ordered by offset, and the
\* matches of one offset in the order of the scan, whatever their labels.
C29_StableByOffset ==
    [][ (parser_pc = "scanned" /\ parser_pc' = "extracted") =>
            /\ SortedByOffset(timestamps')
            /\ Len(timestamps') = Len(timestamps)
            /\ \A o \in 0..MaxOffset :
                   LET AtOffset(t) == t[1] = o
                   IN  SelectSeq(timestamps', AtOffset) = SelectSeq(timestamps, AtOffset)
      ]_vars

\* the model's str.upper(), to write an entry in another letter case
Upper(s) == [k \in 1..Len(s) |-> IF s[k] \in DOMAIN UpperOf THEN UpperOf[s[k]] ELSE s[k]]

\* other spellings of a raw keyword list: another letter case, surrounding
\* whitespace, empty and whitespace-only entries
Respellings(raw) ==
    { raw,
      [j \in 1..Len(raw) |-> Upper(raw[j])],
      [j \in 1..Len(raw) |-> Lower(raw[j])],
      [j \in 1..Len(raw) |-> <<" ">> \o raw[j] \o <<" ">>],
      raw \o << <<>> >>,
      << <<" ">> >> \o raw }

\* C28: the letter case and the surrounding whitespace of an entry of KEYWORDS
\* or KEYWORDS_EXCLUDE, and the empty or whitespace-only entries, never change
\* which references find_continuous_segments selects.
C28_KeywordsNormalized ==
    parser_pc = "built" =>
        \A rk \in Respellings(env_keywords), rx \in Respellings(env_exclude) :
            LET k2 == get_keywords_from_env(rk)
                x2 == ExcludeKeywordsFromEnv(rx)
            IN  /\ MatchedIndices(timestamps, k2, x2)
                      = MatchedIndices(timestamps, keywords, exclude_keywords)
                /\ find_continuous_segments(timestamps, k2, x2) = segments

C28_Witness ==
    /\ parser_pc = "built"
    /\ env_keywords = << <<" ", "A", " ">>, <<" ">> >>
    /\ env_exclude = << <<" ", "T">>, <<>> >>
    /\ Len(timestamps) = 2
    /\ Len(MatchedIndices(timestamps, keywords, exclude_keywords)) = 1
    /\ segments # <<>>

\* C21: once the main thread has read the shutdown flag as set, no further
\* item starts and no further batch is fetched; an item starts only after the
\* pause flag was read as clear; an item in its publish step runs to its end
\* whatever the flags.
C21_FlagsAtBoundaries ==
    [][ /\ observed_shutdown => (Len(started') = Len(started) /\ listings' = listings)
        /\ Len(started') > Len(started) => ~observed_paused
        /\ drain_pc = "item_publish" =>
               \/ drain_pc' = drain_pc /\ started' = started
               \/ drain_pc' = "for" /\ started'[Len(started')].published
      ]_vars

\* C30: the listings of a drain pass start at offset 0 and advance by the
\* batch size, and a listing that returned fewer items than the batch size is
\* the last one.
C30_StopAtShortBatch ==
    \A i \in 1..Len(listings) :
        /\ listings[i].start_index = (i - 1) * BatchSize
        /\ i < Len(listings) => listings[i].returned = BatchSize

\* unseen, pending, uploaded as get_video_status reports them, in their order
StatusRank(status) == CASE status = None -> 0 [] status = "pending" -> 1 [] status = "uploaded" -> 2

\* C35: under any sequence of add_processed_video and mark_as_uploaded calls
\* the status of an id only moves forward along unseen, pending, uploaded: an
\* uploaded id never becomes pending or unseen again and a row is never lost.
C35_StatusForward ==
    [][ \A id \in LedgerIds :
            /\ StatusRank(get_video_status(ledger', id)) >= StatusRank(get_video_status(ledger, id))
            /\ HasRow(ledger, id) => HasRow(ledger', id) ]_vars

C35_Witness ==
    /\ parser_pc = "ledger"
    /\ passes = 4
    /\ DOMAIN ledger = {"v1", "v2"}
    /\ get_video_status(ledger, "v1") = "uploaded"
    /\ ledger["v1"].uploaded_date = <<1>>
    /\ get_video_status(ledger, "v2") = "pending"

\* C36: every return from UploadScheduler.upload_video and every iteration of
\* schedule_uploads that had acquired the lock - after a success, a missing
\* compilation file or an exception of the upload - leaves the lock free and
\* current_upload None, and the lock is never held while no caller is inside.
C36_LockReleased ==
    /\ [](upload_lock => (pc \in {"remote_upload", "mark"}
                            \/ sched_pc \in {"remote_upload", "mark"}))
    /\ [][ /\ ( \/ pc \in {"remote_upload", "mark"} /\ pc' = "cleanup"
                \/ pc = "upload" /\ ~upload_lock /\ pc' = "cleanup" )
                => (~upload_lock' /\ current_upload' = NoTitle)
           /\ ( \/ sched_pc \in {"remote_upload", "mark"} /\ sched_pc' = "poll"
                \/ sched_pc = "acquire" /\ ~upload_lock /\ sched_pc' = "poll" )
                => (~upload_lock' /\ current_upload' = NoTitle) ]_vars

\* the upload of the main thread raised, and the scheduler thread holds the lock
C36_Witness ==
    /\ pc = "cleanup"
    /\ response = "raised"
    /\ sched_pc = "remote_upload"
    /\ upload_lock
    /\ current_upload = sched_job.title

\* C38: when the search of the remote check raises, check_if_uploaded answers
\* False and the item goes on to the references, the download, the cut and the
\* publish as an item never published does; the error never ends the item as
\* already published.
C38_SearchErrorIsMiss ==
    (calls # <<>> /\ calls[1].op = "check_if_uploaded" /\ calls[1].arg = SearchError("raises"))
        => /\ ~calls[1].ok
           /\ Len(calls) = 1 => pc = "fetch"

C38_Witness ==
    /\ calls # <<>>
    /\ calls[1].op = "check_if_uploaded"
    /\ calls[1].arg = SearchError("raises")
    /\ pc = "cleanup"
    /\ upload_ok = "True"
    /\ \E i \in 1..Len(calls) : calls[i].op = "upload_video" /\ calls[i].ok

\* C37: in schedule_uploads, with uploads that succeed and a loop that keeps
\* running, every pending row whose compilation file is on disk is eventually
\* uploaded and marked uploaded, also when the compilation file of another
\* pending row is missing.
C37_PendingEventuallyUploaded ==
    \A id \in VideoIds :
        (IsPending(ledger, id) /\ ledger[id].compilation_path \in compilation_files)
            ~> (get_video_status(ledger, id) = "uploaded" /\ published[id] > 0)

\* C34: a call through retry_with_backoff(retries = n) invokes the function at
\* most n + 1 times, returns at the first success without another invocation,
\* raises after the (n + 1)-th failure in a row, and sleeps
\* backoff_in_seconds * 2^k plus a jitter of 0 to 1 second before retry k.
C34_BoundedRetries ==
    /\ Len(invocations) <= retries + 1
    /\ \A i \in 1..(Len(invocations) - 1) : invocations[i] = "raises"
    /\ retry_pc = "returned" => invocations[Len(invocations)] = "returns"
    /\ retry_pc = "raised" =>
           /\ Len(invocations) = retries + 1
           /\ invocations[Len(invocations)] = "raises"
    /\ retry_pc = "call" => Len(waits) = Len(invocations)
    /\ retry_pc \in {"returned", "raised"} => Len(waits) = Len(invocations) - 1
    /\ \A k \in 1..Len(waits) :
           /\ waits[k] >= backoff_in_seconds * 2^(k - 1) * 10
           /\ waits[k] <= backoff_in_seconds * 2^(k - 1) * 10 + 10

C34_Witness ==
    /\ retry_pc = "raised"
    /\ retries = 3
    /\ backoff_in_seconds = 2
    /\ Len(invocations) = 4
    /\ waits[3] = 85

\* the video ids handed to process_and_upload_video in this pass, in order
StartedIds == [i \in 1..Len(started) |-> started[i].video_id]

MinuteDistance(a, b) == LET d == Abs(a - b) IN IF d < DayMinutes - d THEN d ELSE DayMinutes - d

\* C32: is_schedule_time answers True exactly when the time of day is within
\* 5 minutes, before or after, of a configured time, also for a configured
\* time whose window spans midnight.
C32_WithinToleranceWindow ==
    [][ (drain_pc = "sched_check" /\ drain_pc' # drain_pc) =>
            ( drain_pc' = "while" <=>
                \E k \in 1..Len(upload_times) :
                    MinuteDistance(wall_clock, ScheduleMinutes(upload_times[k])) <= 5 ) ]_vars

\* C39: in the schedule loop an occurrence of a configured time triggers at
\* most one drain pass: no pass is triggered while the clock is still inside
\* the window in which the pass before it was triggered.
C39_OnePassPerWindow ==
    [][ (drain_pc = "sched_check" /\ drain_pc' = "while" /\ last_trigger # -1) =>
            ~\E k \in 1..Len(upload_times) :
                 /\ MinuteDistance(last_trigger, ScheduleMinutes(upload_times[k])) <= 5
                 /\ MinuteDistance(wall_clock, ScheduleMinutes(upload_times[k])) <= 5 ]_vars

\* C33: after the shutdown flag is set the main thread begins at most one more
\* sleep and reaches the final cleanup, whether it was waiting between two
\* schedule checks, in a pause loop or in the back-off after an error, and
\* whatever the pause flag.
C33_ShutdownWithinOneTick ==
    /\ [](sleeps_since_shutdown <= 1)
    /\ shutdown ~> (drain_pc = "cleanup")

\* the shutdown request came while the main thread slept in a pause loop: one
\* sleep later the cleanup is reached, the pause flag still set
C33_Witness ==
    /\ drain_pc = "cleanup"
    /\ shutdown
    /\ paused
    /\ observed_paused
    /\ sleeps_since_shutdown = 1

====
